---- MODULE Spec2Model ----
(***************************************************************************)
(* Model of pc_case_visualizer (src/src/main.rs): the Loading -> Game      *)
(* state machine, the one-shot OnEnter(Screen::Game) chain, and the        *)
(* per-frame Update chain (orbit_camera_system, aim_camera_light) together *)
(* with the engine's PostUpdate transform propagation.                     *)
(*                                                                         *)
(* f32 values are fixed-point integers:                                    *)
(*   angles            milliradians            (0.7 rad   = 700)           *)
(*   lengths           hundredths of a unit    (900.0     = 90000)         *)
(*   unit vectors/trig ten-thousandths         (1.0       = 10000)         *)
(*   time              milliseconds            (delta_secs 0.010 = 10)     *)
(* so that the squared-length threshold 0.0001 of aim_camera_light is the  *)
(* integer 1.  Floating-point rounding and NaN are outside the model.      *)
(***************************************************************************)
EXTENDS Integers, Sequences, FiniteSets, TLC

----------------------------------------------------------------------------
(* Fixed-point scales *)

Milli == 1000
Centi == 100
Unit == 10000

----------------------------------------------------------------------------
(* Bounds of the exploration *)

\* frames counted before the frame counter saturates
MaxFrames == 4
\* largest |yaw - initial yaw| (milliradians) the input generator allows
MaxDrift == 30
\* cap of the run counters of the systems (they saturate here)
MaxCount == 3
\* largest number of camera entities in the worlds of AimSpec
MaxCameras == 2
\* how far past the clamp range the pitch inputs of the clamp check reach
PitchProbe == 100

----------------------------------------------------------------------------
(* Scalar and vector arithmetic (glam Vec3 / f32 as fixed point) *)

Abs(a) == IF a < 0 THEN -a ELSE a

Max2(a, b) == IF a < b THEN b ELSE a

Min2(a, b) == IF a < b THEN a ELSE b

\* division truncating toward zero
Quot(a, b) == IF a < 0 THEN -((-a) \div b) ELSE a \div b

RECURSIVE SqrtSearch(_, _, _)
SqrtSearch(n, lo, hi) ==
    IF lo >= hi THEN lo
    ELSE LET mid == (lo + hi + 1) \div 2
         IN  IF mid * mid <= n THEN SqrtSearch(n, mid, hi)
                               ELSE SqrtSearch(n, lo, mid - 1)

\* floor of the square root, for 0 <= n < 2^30
ISqrt(n) == SqrtSearch(n, 0, 32767)

VAdd(a, b) == <<a[1] + b[1], a[2] + b[2], a[3] + b[3]>>

VSub(a, b) == <<a[1] - b[1], a[2] - b[2], a[3] - b[3]>>

VQuot(a, s) == <<Quot(a[1], s), Quot(a[2], s), Quot(a[3], s)>>

VMaxAbs(a) == Max2(Abs(a[1]), Max2(Abs(a[2]), Abs(a[3])))

\* Vec3::length_squared; a vector with a component of Unit or more is
\* reported as Unit * Unit (its squares would leave the 32-bit integers of
\* the model checker, and every comparison made is against 1)
LengthSquared(a) ==
    IF VMaxAbs(a) >= Unit THEN Unit * Unit
    ELSE a[1] * a[1] + a[2] * a[2] + a[3] * a[3]

\* Vec3::normalize: a vector of length Unit; the argument is first scaled
\* so that its largest component is near Unit (squares stay in range and
\* short vectors keep their direction)
Normalize(a) ==
    LET m == VMaxAbs(a)
        w == IF m > Unit THEN VQuot(a, (m \div Unit) + 1)
             ELSE IF m = 0 THEN a
             ELSE <<a[1] * (Unit \div m), a[2] * (Unit \div m), a[3] * (Unit \div m)>>
        len == ISqrt(w[1] * w[1] + w[2] * w[2] + w[3] * w[3])
    IN  IF len = 0 THEN <<0, 0, 0>>
        ELSE <<Quot(w[1] * Unit, len), Quot(w[2] * Unit, len), Quot(w[3] * Unit, len)>>

\* cross product of two Unit-scaled vectors, Unit-scaled
Cross(a, b) ==
    <<Quot(a[2] * b[3] - a[3] * b[2], Unit),
      Quot(a[3] * b[1] - a[1] * b[3], Unit),
      Quot(a[1] * b[2] - a[2] * b[1], Unit)>>

\* one Horner step of the Taylor series: 1 - x2 * inner / k
Horner(x2, k, inner) == Unit - Quot(x2 * inner, k * Unit)

\* f32::cos of an angle in milliradians, Unit-scaled
Cos(x) ==
    LET x2 == Quot(x * x, Centi)
    IN  Horner(x2, 2, Horner(x2, 12, Horner(x2, 30, Horner(x2, 56, Unit))))

\* f32::sin of an angle in milliradians, Unit-scaled
Sin(x) ==
    LET x2 == Quot(x * x, Centi)
    IN  Quot(x * Horner(x2, 6, Horner(x2, 20, Horner(x2, 42, Horner(x2, 72, Unit)))), Milli)

----------------------------------------------------------------------------
(* Transforms and rotations *)

Vec3_ZERO == <<0, 0, 0>>

Vec3_Y == <<0, Unit, 0>>

Vec3_NEG_Z == <<0, 0, -Unit>>

\* a rotation given by its basis (the columns of its matrix)
Basis(right, up, back) == [kind |-> "basis", right |-> right, up |-> up, back |-> back]

Quat_IDENTITY == Basis(<<Unit, 0, 0>>, <<0, Unit, 0>>, <<0, 0, Unit>>)

\* Quat::from_rotation_arc, Quat::inverse and Quat * Quat are kept as the
\* terms they build: two of them are equal when built from equal arguments
from_rotation_arc(from, to) == [kind |-> "arc", from |-> from, to |-> to]

QuatInverse(q) == [kind |-> "inverse", of |-> q]

QuatMul(a, b) == [kind |-> "mul", lhs |-> a, rhs |-> b]

\* Quat * Vec3 for a rotation given by its basis; v is a length
QuatRotate(q, v) ==
    <<Quot(v[1] * q.right[1] + v[2] * q.up[1] + v[3] * q.back[1], Unit),
      Quot(v[1] * q.right[2] + v[2] * q.up[2] + v[3] * q.back[2], Unit),
      Quot(v[1] * q.right[3] + v[2] * q.up[3] + v[3] * q.back[3], Unit)>>

Transform(translation, rotation) == [translation |-> translation, rotation |-> rotation]

Transform_default == Transform(Vec3_ZERO, Quat_IDENTITY)

\* Transform::look_at(target, up): back = -(target - translation) normalized,
\* right = up x back normalized, up = back x right
look_at(transform, target, up) ==
    LET back == Normalize(VSub(transform.translation, target))
        right == Normalize(Cross(up, back))
        newUp == Cross(back, right)
    IN  Transform(transform.translation, Basis(right, newUp, back))

\* GlobalTransform of a child: parent * local
GlobalMul(parent, local) ==
    Transform(VAdd(parent.translation, QuatRotate(parent.rotation, local.translation)),
              QuatMul(parent.rotation, local.rotation))

----------------------------------------------------------------------------
(* Program constants *)

\* OrbitCamera of init_spawn
CameraRadius == 90000
CameraYaw == 700
CameraPitch == 400
CameraSpeed == 1500
CameraTargetY == 20000
\* local offset of the "Camera Light" child
LightOffsetY == 5000
\* orbit.pitch.clamp(0.05, 1.2)
PitchMin == 50
PitchMax == 1200
\* dir.length_squared() > 0.0001
AimEpsilon == 1

CameraTarget == <<0, CameraTargetY, 0>>

----------------------------------------------------------------------------
(* State *)

VARIABLES
    screen,       \* State<Screen>: "Loading" or "Game"
    next_screen,  \* NextState<Screen>: "Unchanged", or the pending state
    all_done,     \* ResourceHandles::is_all_done() of this frame
    keys,         \* ButtonInput<KeyCode>: the keys held this frame
    delta,        \* Time::delta_secs() of this frame, in milliseconds
    cameras,      \* entities with (OrbitCamera, Transform, GlobalTransform)
    lights,       \* entities with (SpotLight, Transform, GlobalTransform, ChildOf)
    levels,       \* number of "Level" entities
    labels,       \* number of UI text entities
    phase,        \* the schedule or system that runs next
    frame,        \* frames started (saturates at MaxFrames)
    everDone,     \* is_all_done() has been true in some frame
    observed,     \* enter_gameplay_screen has run (its run condition was true)
    changes,      \* times State<Screen> changed its value (saturating)
    initRuns,     \* runs of init_spawn (saturating)
    syncRuns,     \* runs of sync_orbit_camera_on_spawn (saturating)
    orbitRuns,    \* runs of orbit_camera_system (saturating)
    aimRuns,      \* runs of aim_camera_light (saturating)
    yawSum        \* sum of direction * speed * delta over the orbit runs

world == <<cameras, lights, levels, labels>>
inputs == <<all_done, keys, delta>>
history == <<frame, everDone, observed, changes, initRuns, syncRuns, orbitRuns, aimRuns, yawSum>>
vars == <<screen, next_screen, inputs, world, phase, history>>

Bump(n) == Min2(n + 1, MaxCount)

\* what holding the keys for dt is to add to the yaw: +speed*dt for A alone,
\* -speed*dt for D alone, nothing for both or neither (the bookkeeping of
\* yawSum, kept apart from the system's own arithmetic)
HeldYawChange(pressed, speed, dt) ==
    CASE pressed = {"KeyA"} -> (speed * dt) \div Milli
      [] pressed = {"KeyD"} -> -((speed * dt) \div Milli)
      [] OTHER -> 0

Keys == {"KeyA", "KeyD"}

\* frame times the clock delivers (milliseconds)
Deltas == {0, 10, 20}

----------------------------------------------------------------------------
(* Schedules of AppPlugin::build *)

\* faulty variant: the sync system ordered before the spawn
OnEnterGame_SyncFirst == <<"sync_orbit_camera_on_spawn", "init_spawn", "spawn_text_in_ui">>

\* OnEnter(Screen::Game): (init_spawn, spawn_text_in_ui, sync_orbit_camera_on_spawn).chain()
OnEnterGame == <<"init_spawn", "spawn_text_in_ui", "sync_orbit_camera_on_spawn">>

\* Update: (orbit_camera_system, aim_camera_light).chain()
UpdateChain == <<"orbit_camera_system", "aim_camera_light">>

IndexOf(chain, name) == CHOOSE i \in 1..Len(chain) : chain[i] = name

\* the system a chain runs after name, or rest when name is its last
After(chain, name, rest) ==
    IF IndexOf(chain, name) = Len(chain) THEN rest ELSE chain[IndexOf(chain, name) + 1]

----------------------------------------------------------------------------
(* Systems *)

\* faulty variant: no in_state guard and the other screen requested, whichever the
\* current one is
enter_gameplay_screen_Toggle(state, done, next) ==
    IF done THEN (IF state = "Loading" THEN "Game" ELSE "Loading") ELSE next

\* faulty variant: next_screen.set(Screen::Loading)
enter_gameplay_screen_WrongScreen(state, done, next) ==
    IF state = "Loading" /\ done THEN "Loading" ELSE next

\* faulty variant: the run condition without .and(all_assets_loaded)
enter_gameplay_screen_NoAssetCheck(state, done, next) ==
    IF state = "Loading" THEN "Game" ELSE next

\* enter_gameplay_screen.run_if(in_state(Screen::Loading).and(all_assets_loaded)):
\* the NextState after the system had its turn
enter_gameplay_screen(state, done, next) ==
    IF state = "Loading" /\ done THEN "Game" ELSE next

\* the camera entity of init_spawn
init_spawn_camera ==
    [orbit |-> [radius |-> CameraRadius, yaw |-> CameraYaw, pitch |-> CameraPitch,
                speed |-> CameraSpeed, target |-> CameraTarget],
     transform |-> Transform_default,
     global |-> Transform_default]

\* the "Camera Light" child of camera entity number parent
init_spawn_light(parent) ==
    [parent |-> parent,
     transform |-> Transform(<<0, LightOffsetY, 0>>, Quat_IDENTITY),
     global |-> Transform_default]

\* spherical -> Cartesian, then look_at: the transform both
\* sync_orbit_camera_on_spawn and orbit_camera_system write
OrbitPose(orbit) ==
    LET cos_pitch == Cos(orbit.pitch)
        sin_pitch == Sin(orbit.pitch)
        px == Quot(Quot(orbit.radius * Cos(orbit.yaw), Unit) * cos_pitch, Unit)
        pz == Quot(Quot(orbit.radius * Sin(orbit.yaw), Unit) * cos_pitch, Unit)
        py == Quot(orbit.radius * sin_pitch, Unit)
    IN  look_at(Transform(VAdd(orbit.target, <<px, py, pz>>), Quat_IDENTITY),
                orbit.target, Vec3_Y)

sync_orbit_camera_on_spawn(cams) ==
    [i \in DOMAIN cams |-> [cams[i] EXCEPT !.transform = OrbitPose(cams[i].orbit)]]

\* faulty variant: the two keys exchanged
Direction_Swapped(pressed) ==
    (IF "KeyD" \in pressed THEN 1 ELSE 0) - (IF "KeyA" \in pressed THEN 1 ELSE 0)

\* keys.pressed(KeyA) adds 1, keys.pressed(KeyD) subtracts 1
Direction(pressed) ==
    (IF "KeyA" \in pressed THEN 1 ELSE 0) - (IF "KeyD" \in pressed THEN 1 ELSE 0)

\* direction * orbit.speed * time.delta_secs(), in milliradians
YawStep(pressed, speed, dt) == Quot(Direction(pressed) * speed * dt, Milli)

\* f32::clamp
Clamp(v, lo, hi) == IF v < lo THEN lo ELSE IF v > hi THEN hi ELSE v

\* faulty variant: the clamp bounds the lower end only
ClampPitch_NoUpper(pitch) == IF pitch < PitchMin THEN PitchMin ELSE pitch

\* the pitch after the clamp step of orbit_camera_system
ClampPitch(pitch) == Clamp(pitch, PitchMin, PitchMax)

\* the OrbitCamera after the input and clamp steps
OrbitStep(orbit, pressed, dt) ==
    [orbit EXCEPT !.yaw = @ + YawStep(pressed, orbit.speed, dt),
                  !.pitch = ClampPitch(@)]

orbit_camera_system(cams, pressed, dt) ==
    [i \in DOMAIN cams |->
        LET orbit == OrbitStep(cams[i].orbit, pressed, dt)
        IN  [cams[i] EXCEPT !.orbit = orbit, !.transform = OrbitPose(orbit)]]

\* faulty variant: a default camera stands in when the query finds none
camera_single_OrDefault(cams) ==
    IF Len(cams) = 1 THEN <<cams[1]>>
    ELSE IF Len(cams) = 0 THEN <<init_spawn_camera>> ELSE <<>>

\* camera_query.single(): the one camera, or nothing when there is none
\* or more than one
camera_single(cams) == IF Len(cams) = 1 THEN <<cams[1]>> ELSE <<>>

\* faulty variant: >= in place of >
AimGuard_Inclusive(dir) == LengthSquared(dir) >= AimEpsilon

\* dir.length_squared() > 0.0001
AimGuard(dir) == LengthSquared(dir) > AimEpsilon

\* the body of the loop of aim_camera_light for one light
AimLight(camera, light) ==
    LET dir == VSub(camera.orbit.target, light.global.translation)
    IN  IF AimGuard(dir)
        THEN [light EXCEPT !.transform.rotation =
                 QuatMul(QuatInverse(camera.global.rotation),
                         from_rotation_arc(Vec3_NEG_Z, Normalize(dir)))]
        ELSE light

aim_camera_light(cams, lts) ==
    IF camera_single(cams) # <<>>
    THEN [i \in DOMAIN lts |-> AimLight(camera_single(cams)[1], lts[i])]
    ELSE lts

\* transform propagation of PostUpdate: a root's GlobalTransform is its
\* Transform, a child's is its parent's GlobalTransform times its Transform
PropagateCameras(cams) ==
    [i \in DOMAIN cams |-> [cams[i] EXCEPT !.global = cams[i].transform]]

PropagateLights(cams, lts) ==
    [i \in DOMAIN lts |->
        IF lts[i].parent \in DOMAIN cams
        THEN [lts[i] EXCEPT !.global = GlobalMul(cams[lts[i].parent].global, lts[i].transform)]
        ELSE [lts[i] EXCEPT !.global = lts[i].transform]]

----------------------------------------------------------------------------
(* Initial state: App::new().add_plugins(AppPlugin), before the first frame *)

Init ==
    /\ screen = "Loading"
    /\ next_screen = "Unchanged"
    /\ all_done = FALSE
    /\ keys = {}
    /\ delta = 0
    /\ cameras = <<>>
    /\ lights = <<>>
    /\ levels = 0
    /\ labels = 0
    /\ phase = "First"
    /\ frame = 0
    /\ everDone = FALSE
    /\ observed = FALSE
    /\ changes = 0
    /\ initRuns = 0
    /\ syncRuns = 0
    /\ orbitRuns = 0
    /\ aimRuns = 0
    /\ yawSum = 0

----------------------------------------------------------------------------
(* One frame of the Main schedule *)

\* First: the engine samples the clock and the keyboard.  The keys offered
\* keep the accumulated yaw within MaxDrift of its initial value.
First ==
    /\ phase = "First"
    /\ \E dt \in Deltas, pressed \in SUBSET Keys :
          /\ Abs(yawSum + HeldYawChange(pressed, CameraSpeed, dt)) <= MaxDrift
          /\ delta' = dt
          /\ keys' = pressed
    /\ frame' = Min2(frame + 1, MaxFrames)
    /\ phase' = "PreUpdate"
    /\ UNCHANGED <<screen, next_screen, all_done, world>>
    /\ UNCHANGED <<everDone, observed, changes, initRuns, syncRuns, orbitRuns, aimRuns, yawSum>>

\* PreUpdate: the asset tracker polls its handles; is_all_done() of this
\* frame is whatever the tracker finds
load_resource_assets ==
    /\ phase = "PreUpdate"
    /\ \E done \in BOOLEAN :
          /\ all_done' = done
          /\ everDone' = (everDone \/ done)
    /\ phase' = "StateTransition"
    /\ UNCHANGED <<screen, next_screen, keys, delta, world>>
    /\ UNCHANGED <<frame, observed, changes, initRuns, syncRuns, orbitRuns, aimRuns, yawSum>>

\* StateTransition: a pending NextState is applied; OnEnter of the entered
\* state runs when the state changed
StateTransition ==
    /\ phase = "StateTransition"
    /\ screen' = IF next_screen = "Unchanged" THEN screen ELSE next_screen
    /\ next_screen' = "Unchanged"
    /\ changes' = IF screen' # screen THEN Bump(changes) ELSE changes
    /\ phase' = IF screen' # screen /\ screen' = "Game"
                THEN OnEnterGame[1] ELSE "enter_gameplay_screen"
    /\ UNCHANGED <<inputs, world>>
    /\ UNCHANGED <<frame, everDone, observed, initRuns, syncRuns, orbitRuns, aimRuns, yawSum>>

\* init_spawn, with its commands applied at the sync point after it
init_spawn ==
    /\ phase = "init_spawn"
    /\ cameras' = Append(cameras, init_spawn_camera)
    /\ lights' = Append(lights, init_spawn_light(Len(cameras) + 1))
    /\ levels' = levels + 1
    /\ initRuns' = Bump(initRuns)
    /\ phase' = After(OnEnterGame, "init_spawn", "enter_gameplay_screen")
    /\ UNCHANGED <<screen, next_screen, inputs, labels>>
    /\ UNCHANGED <<frame, everDone, observed, changes, syncRuns, orbitRuns, aimRuns, yawSum>>

\* spawn_text_in_ui, with its commands applied at the sync point after it
spawn_text_in_ui ==
    /\ phase = "spawn_text_in_ui"
    /\ labels' = labels + 1
    /\ phase' = After(OnEnterGame, "spawn_text_in_ui", "enter_gameplay_screen")
    /\ UNCHANGED <<screen, next_screen, inputs, cameras, lights, levels>>
    /\ UNCHANGED history

SyncOrbitCameraOnSpawn ==
    /\ phase = "sync_orbit_camera_on_spawn"
    /\ cameras' = sync_orbit_camera_on_spawn(cameras)
    /\ syncRuns' = Bump(syncRuns)
    /\ phase' = After(OnEnterGame, "sync_orbit_camera_on_spawn", "enter_gameplay_screen")
    /\ UNCHANGED <<screen, next_screen, inputs, lights, levels, labels>>
    /\ UNCHANGED <<frame, everDone, observed, changes, initRuns, orbitRuns, aimRuns, yawSum>>

\* Update: enter_gameplay_screen behind its run condition
EnterGameplayScreen ==
    /\ phase = "enter_gameplay_screen"
    /\ next_screen' = enter_gameplay_screen(screen, all_done, next_screen)
    /\ observed' = (observed \/ (screen = "Loading" /\ all_done))
    /\ phase' = UpdateChain[1]
    /\ UNCHANGED <<screen, inputs, world>>
    /\ UNCHANGED <<frame, everDone, changes, initRuns, syncRuns, orbitRuns, aimRuns, yawSum>>

\* Update: orbit_camera_system behind run_if(in_state(Screen::Game))
OrbitCameraSystem ==
    /\ phase = "orbit_camera_system"
    /\ IF screen = "Game"
       THEN /\ cameras' = orbit_camera_system(cameras, keys, delta)
            /\ orbitRuns' = Bump(orbitRuns)
            /\ yawSum' = yawSum + HeldYawChange(keys, CameraSpeed, delta)
       ELSE UNCHANGED <<cameras, orbitRuns, yawSum>>
    /\ phase' = After(UpdateChain, "orbit_camera_system", "PostUpdate")
    /\ UNCHANGED <<screen, next_screen, inputs, lights, levels, labels>>
    /\ UNCHANGED <<frame, everDone, observed, changes, initRuns, syncRuns, aimRuns>>

\* Update: aim_camera_light behind run_if(in_state(Screen::Game))
AimCameraLight ==
    /\ phase = "aim_camera_light"
    /\ IF screen = "Game"
       THEN /\ lights' = aim_camera_light(cameras, lights)
            /\ aimRuns' = Bump(aimRuns)
       ELSE UNCHANGED <<lights, aimRuns>>
    /\ phase' = After(UpdateChain, "aim_camera_light", "PostUpdate")
    /\ UNCHANGED <<screen, next_screen, inputs, cameras, levels, labels>>
    /\ UNCHANGED <<frame, everDone, observed, changes, initRuns, syncRuns, orbitRuns, yawSum>>

\* PostUpdate: transform propagation; then the next frame starts
PostUpdate ==
    /\ phase = "PostUpdate"
    /\ cameras' = PropagateCameras(cameras)
    /\ lights' = PropagateLights(PropagateCameras(cameras), lights)
    /\ phase' = "First"
    /\ UNCHANGED <<screen, next_screen, inputs, levels, labels>>
    /\ UNCHANGED history

Next ==
    \/ First
    \/ load_resource_assets
    \/ StateTransition
    \/ init_spawn
    \/ spawn_text_in_ui
    \/ SyncOrbitCameraOnSpawn
    \/ EnterGameplayScreen
    \/ OrbitCameraSystem
    \/ AimCameraLight
    \/ PostUpdate

Spec == Init /\ [][Next]_vars

----------------------------------------------------------------------------
(* aim_camera_light as a function of the world it is given: the worlds of  *)
(* AimInit have any number of cameras up to MaxCameras and a spotlight at   *)
(* or near the target, cases the entities of init_spawn never reach.        *)

\* light positions relative to the target (hundredths of a unit)
AimOffsets ==
    {<<0, 0, 0>>, <<1, 0, 0>>, <<0, -1, 0>>, <<1, 1, 0>>, <<-1, 0, 1>>,
     <<0, 0, 2>>, <<0, 5000, 0>>, <<0, -CameraTargetY, 0>>}

AimCameras ==
    {[init_spawn_camera EXCEPT !.transform = OrbitPose(init_spawn_camera.orbit), !.global = g] :
        g \in {Transform_default, OrbitPose(init_spawn_camera.orbit)}}

AimCameraSeqs == UNION {[1..n -> AimCameras] : n \in 0..MaxCameras}

AimRotations == {Quat_IDENTITY, from_rotation_arc(Vec3_NEG_Z, Vec3_Y)}

AimInit ==
    /\ screen = "Game"
    /\ next_screen = "Unchanged"
    /\ all_done = TRUE
    /\ keys = {}
    /\ delta = 0
    /\ cameras \in AimCameraSeqs
    /\ \E off \in AimOffsets, rot \in AimRotations :
          lights = <<[parent |-> IF cameras = <<>> THEN 0 ELSE 1,
                      transform |-> Transform(<<0, LightOffsetY, 0>>, rot),
                      global |-> Transform(VAdd(CameraTarget, off), rot)]>>
    /\ levels = 1
    /\ labels = 1
    /\ phase = "aim_camera_light"
    /\ frame = 1
    /\ everDone = TRUE
    /\ observed = TRUE
    /\ changes = 1
    /\ initRuns = 1
    /\ syncRuns = 1
    /\ orbitRuns = 1
    /\ aimRuns = 0
    /\ yawSum = 0

AimNext == AimCameraLight \/ PostUpdate

AimSpec == AimInit /\ [][AimNext]_vars

----------------------------------------------------------------------------
(* Claims *)

\* the systems of OnEnter(Screen::Game) have all run
Entered == screen = "Game" /\ phase \notin {OnEnterGame[i] : i \in DOMAIN OnEnterGame}

\* C1: the camera (with its OrbitCamera), its spotlight child, the level
\* entity and the UI label are spawned exactly once, on entering Game:
\* none exists in Loading, one of each exists once Game is entered, and no
\* later true reading of is_all_done() adds another.
C1_SpawnedExactlyOnce ==
    /\ initRuns <= 1
    /\ Len(cameras) <= 1 /\ Len(lights) <= 1 /\ levels <= 1 /\ labels <= 1
    /\ screen = "Loading" => (Len(cameras) = 0 /\ Len(lights) = 0 /\ levels = 0 /\ labels = 0)
    /\ Entered => /\ Len(cameras) = 1 /\ Len(lights) = 1 /\ levels = 1 /\ labels = 1
                  /\ lights[1].parent = 1
                  /\ cameras[1].orbit.radius = CameraRadius

\* a true reading of is_all_done() frames after Game was entered
C1_Witness ==
    /\ Entered /\ all_done /\ orbitRuns >= 2 /\ phase = "PostUpdate"
    /\ Len(cameras) = 1 /\ Len(lights) = 1 /\ levels = 1 /\ labels = 1

\* C2: a frame in Loading whose run condition reads is_all_done() true is
\* followed by Game: after it the state is Loading only for the rest of
\* that frame and up to the StateTransition of the next one, with NextState
\* pending Game; from that StateTransition on the state is Game.
C2_DoneInLoadingLeadsToGame ==
    (observed /\ screen = "Loading") =>
        /\ next_screen = "Game"
        /\ phase \in {"orbit_camera_system", "aim_camera_light", "PostUpdate",
                      "First", "PreUpdate", "StateTransition"}

C2_Witness == observed /\ screen = "Game" /\ changes = 1 /\ phase = "enter_gameplay_screen"

\* C3: the screen is forward-only: once Game it stays Game, and its value
\* changes at most once.
C3_ForwardOnly == [][(screen = "Game" => screen' = "Game") /\ changes' <= 1]_vars

C3_Witness == screen = "Game" /\ changes = 1 /\ frame = MaxFrames /\ all_done /\ phase = "First"

\* C4: while is_all_done() has read false in every frame so far, the state
\* is Loading, no transition is pending, nothing is spawned and neither the
\* orbit step nor the aiming step has run.
C4_LoadingWhileNotDone ==
    ~everDone =>
        /\ screen = "Loading" /\ next_screen = "Unchanged"
        /\ cameras = <<>> /\ lights = <<>> /\ levels = 0 /\ labels = 0
        /\ initRuns = 0 /\ syncRuns = 0 /\ orbitRuns = 0 /\ aimRuns = 0

\* MaxFrames frames have run, all reading false
C4_Witness == ~everDone /\ frame = MaxFrames /\ phase = "First" /\ screen = "Loading"

PitchInRange(p) == PitchMin <= p /\ p <= PitchMax

\* the pitch values the clamp step is tried on
PitchInputs == (PitchMin - PitchProbe)..(PitchMax + PitchProbe)

ClampStepInRange == \A p \in PitchInputs : PitchInRange(ClampPitch(p))

\* C5: the pitch of every OrbitCamera lies in [0.05, 1.2] in every state
\* from its creation on, and the clamp step leaves any pitch in that range.
C5_PitchInRange ==
    /\ \A i \in DOMAIN cameras : PitchInRange(cameras[i].orbit.pitch)
    /\ ClampStepInRange

\* orbit_camera_system has run with a key held
C5_Witness ==
    /\ Len(cameras) = 1 /\ orbitRuns >= 2 /\ keys = {"KeyA"} /\ delta > 0
    /\ phase = "aim_camera_light" /\ cameras[1].orbit.pitch = CameraPitch

\* C6: when aim_camera_light runs, orbit_camera_system has run in the same
\* frame and the GlobalTransforms it reads (the camera's, the light's) are
\* those of the transforms that orbit update produced.
C6_AimReadsThisFramesTransform ==
    (phase = "aim_camera_light" /\ screen = "Game") =>
        /\ orbitRuns >= 1
        /\ \A i \in DOMAIN cameras : cameras[i].global = cameras[i].transform
        /\ \A i \in DOMAIN lights :
              lights[i].global.translation =
                  GlobalMul(cameras[lights[i].parent].transform, lights[i].transform).translation

\* C7: one run of orbit_camera_system changes the yaw by +speed*dt with A
\* alone held, by -speed*dt with D alone held, and not at all with both or
\* neither; the yaw is its initial value plus the sum of these changes.
C7_YawDirectionMapping ==
    [][(phase = "orbit_camera_system" /\ screen = "Game" /\ phase' # phase) =>
        \A i \in DOMAIN cameras :
            LET change == cameras'[i].orbit.yaw - cameras[i].orbit.yaw
                step == (cameras[i].orbit.speed * delta) \div Milli
            IN  /\ keys = {"KeyA"} => change = step
                /\ keys = {"KeyD"} => change = -step
                /\ keys \in {{}, Keys} => change = 0
                /\ cameras'[i].orbit.yaw = CameraYaw + yawSum']_vars

C7_Witness ==
    /\ Len(cameras) = 1 /\ orbitRuns >= 2 /\ phase = "aim_camera_light"
    /\ keys = {"KeyD"} /\ delta > 0 /\ yawSum < 0
    /\ cameras[1].orbit.yaw = CameraYaw + yawSum

\* the squared distance between a light's world position and the target
AimDistanceSquared(light) == LengthSquared(VSub(CameraTarget, light.global.translation))

\* C8: a run of aim_camera_light leaves the rotation of a light whose
\* squared distance to the target is at most 0.0001 as it was, and rewrites
\* a rotation only when that distance is greater.
C8_GuardKeepsRotation ==
    [][(phase = "aim_camera_light" /\ phase' # phase) =>
        \A i \in DOMAIN lights :
            /\ AimDistanceSquared(lights[i]) <= AimEpsilon =>
                   lights'[i].transform.rotation = lights[i].transform.rotation
            /\ lights'[i].transform.rotation # lights[i].transform.rotation =>
                   AimDistanceSquared(lights[i]) > AimEpsilon]_vars

\* the aiming step has run with one camera and a light exactly 0.01 from
\* the target, and the light still has its rotation
C8_Witness ==
    /\ aimRuns = 1 /\ phase = "PostUpdate" /\ Len(cameras) = 1
    /\ AimDistanceSquared(lights[1]) = AimEpsilon
    /\ lights[1].transform.rotation = Quat_IDENTITY

\* C9: sync_orbit_camera_on_spawn runs once, when the camera of init_spawn
\* exists, and before the first run of orbit_camera_system, which finds the
\* camera transform equal to the pose of its orbit parameters and not the
\* default transform.
C9_SyncBeforeFirstOrbitRun ==
    /\ syncRuns <= 1
    /\ phase = "sync_orbit_camera_on_spawn" => (Len(cameras) = 1 /\ syncRuns = 0 /\ orbitRuns = 0)
    /\ (phase = "orbit_camera_system" /\ screen = "Game" /\ orbitRuns = 0) =>
          /\ syncRuns = 1
          /\ Len(cameras) = 1
          /\ \A i \in DOMAIN cameras :
                /\ cameras[i].transform = OrbitPose(cameras[i].orbit)
                /\ cameras[i].transform # Transform_default

C9_Witness ==
    /\ phase = "orbit_camera_system" /\ screen = "Game" /\ orbitRuns = 0 /\ syncRuns = 1
    /\ Len(cameras) = 1 /\ cameras[1].transform.translation # Vec3_ZERO

\* C10: with no camera entity, a run of aim_camera_light changes no light,
\* no camera and no state, and the frame goes on to PostUpdate.
C10_NoCameraNoOp ==
    [][(phase = "aim_camera_light" /\ Len(cameras) = 0 /\ phase' # phase) =>
        /\ lights' = lights
        /\ cameras' = cameras
        /\ screen' = screen /\ next_screen' = next_screen
        /\ phase' = "PostUpdate"]_vars

\* the aiming step has run with no camera on a light far from the target,
\* and the frame has gone on through PostUpdate
C10_Witness ==
    /\ aimRuns = 1 /\ phase = "First" /\ Len(cameras) = 0
    /\ AimDistanceSquared(lights[1]) > AimEpsilon
    /\ lights[1].transform.rotation = Quat_IDENTITY

====
